---- MODULE Spec2Model ----
(***************************************************************************)
(* Flight search: the flight index, the constraint predicates, the         *)
(* explicit-stack depth-first search of find_combinations and the trip     *)
(* assembly of search_trips (src/src/flight_search).                       *)
(*                                                                         *)
(* Times are whole hours, prices whole currency units.  An absent optional *)
(* value (Python None) is the integer None; an Optional[SearchConstraints] *)
(* is a sequence of length 0 or 1.                                         *)
(***************************************************************************)
EXTENDS Integers, Sequences, FiniteSets, TLC

\* ------------------------------------------------------------------ bounds
\* latest departure hour of a flight
MaxTime == 2

None == -1

Airports == {"AAA", "BBB", "CCC"}
Times == 0 .. MaxTime

\* (base_price, bag_price, bags_allowed) of the flights on offer
Fares == {<<1, 1, 1>>, <<3, 0, 0>>}

\* ------------------------------------------------------------ entities.py
FlightDetails ==
    { [origin |-> o, destination |-> d, departure |-> t, arrival |-> t + 1,
       base_price |-> fare[1], bag_price |-> fare[2], bags_allowed |-> fare[3]] :
        o \in Airports, d \in Airports, t \in Times, fare \in Fares }

\* record_to_flight rejects a record whose origin equals its destination
ValidFlights == { f \in FlightDetails : f.origin # f.destination }

\* variant: one bag is charged whatever the bag count
flight_total_price_one_bag(flight, bags) == flight.base_price + flight.bag_price

flight_total_price(flight, bags) == flight.base_price + bags * flight.bag_price

RECURSIVE visited_of(_)
visited_of(fs) ==
    IF fs = << >> THEN {}
    ELSE visited_of(SubSeq(fs, 1, Len(fs) - 1))
            \cup {fs[Len(fs)].origin, fs[Len(fs)].destination}

\* FlightCombination.__init__: no flights is a ValueError
FlightCombination(fs) ==
    IF fs = << >>
    THEN [kind |-> "ValueError"]
    ELSE [kind |-> "combination", flights |-> fs, visited_airports |-> visited_of(fs)]

NullFlightCombination == [kind |-> "null"]

last(cmb) == cmb.flights[Len(cmb.flights)]
first(cmb) == cmb.flights[1]
destination(cmb) == last(cmb).destination
connections(cmb) == Len(cmb.flights) - 1

\* variant: the extension keeps the visited airports of the combination it extends
add_stale_visited(cmb, flight) ==
    [kind |-> "combination", flights |-> Append(cmb.flights, flight),
     visited_airports |-> cmb.visited_airports]

\* FlightCombination.__add__
add(cmb, flight) == FlightCombination(Append(cmb.flights, flight))

\* __iter__ of FlightCombination / NullFlightCombination
cmb_iter(cmb) == IF cmb.kind = "null" THEN << >> ELSE cmb.flights

\* __bool__: only NullFlightCombination defines it (False)
cmb_bool(cmb) == cmb.kind # "null"

cmb_travel_time(cmb) ==
    IF cmb.kind = "null" THEN 0 ELSE last(cmb).arrival - first(cmb).departure

Trip(dep, ret, bags) == [departing |-> dep, returning |-> ret, required_bags |-> bags]

trip_origin(trip) == first(trip.departing).origin
trip_destination(trip) ==
    destination(IF cmb_bool(trip.returning) THEN trip.returning ELSE trip.departing)
trip_travel_time(trip) ==
    cmb_travel_time(trip.departing) + cmb_travel_time(trip.returning)
trip_iter(trip) == cmb_iter(trip.departing) \o cmb_iter(trip.returning)

\* total_price over an iterable of flights
RECURSIVE total_price(_, _)
total_price(fs, bags) ==
    IF fs = << >> THEN 0
    ELSE flight_total_price(Head(fs), bags) + total_price(Tail(fs), bags)

\* --------------------------------------------------------- constraints.py
\* datetime.date(): the calendar day of a timestamp (a model day has two hours)
date(t) == t \div 2

\* TripConstraints.required_bags / .max_price read the departing side
trip_required_bags(tc) == tc.departing.required_bags
trip_max_price(tc) == tc.departing.max_price

\* what is_within_price_range reads of a TripConstraints
trip_price_view(tc) ==
    [required_bags |-> trip_required_bags(tc), max_price |-> trip_max_price(tc)]

is_flight_within_price_range(flight, sc) ==
    IF sc.max_price = None THEN TRUE
    ELSE flight_total_price(flight, sc.required_bags) <= sc.max_price

\* variant: off by one, a combination may have one connection too many
has_a_valid_number_of_connections_lenient(cmb, sc) ==
    IF sc.max_connections = None THEN TRUE
    ELSE connections(cmb) <= sc.max_connections + 1

has_a_valid_number_of_connections(cmb, sc) ==
    IF sc.max_connections = None THEN TRUE
    ELSE connections(cmb) <= sc.max_connections

\* item: the flights the combination or trip iterates over
is_within_price_range(item, c) ==
    IF c.max_price = None THEN TRUE
    ELSE total_price(item, c.required_bags) <= c.max_price

layover_between(inbound, outbound) == outbound.departure - inbound.arrival

\* variant: a layover equal to min_layover is refused
is_valid_layover_exclusive(inbound, outbound, sc) ==
    /\ sc.min_layover < layover_between(inbound, outbound)
    /\ layover_between(inbound, outbound) <= sc.max_layover

\* variant: max_layover is not looked at
is_valid_layover_unbounded(inbound, outbound, sc) ==
    sc.min_layover <= layover_between(inbound, outbound)

is_valid_layover(inbound, outbound, sc) ==
    /\ sc.min_layover <= layover_between(inbound, outbound)
    /\ layover_between(inbound, outbound) <= sc.max_layover

\* variant: the bag allowance is not looked at
is_flight_elegible_any_allowance(flight, tc) ==
    is_flight_within_price_range(flight, tc.departing)

is_flight_elegible(flight, tc) ==
    /\ flight.bags_allowed >= trip_required_bags(tc)
    /\ is_flight_within_price_range(flight, tc.departing)

\* variant: the requested date is not looked at
departs_on_any_date(flight, sc) == TRUE

departs_on_requested_date(flight, sc) ==
    IF sc.departure_date = None THEN TRUE
    ELSE date(flight.departure) = sc.departure_date

is_combination_elegible(cmb, sc) ==
    /\ has_a_valid_number_of_connections(cmb, sc)
    /\ is_within_price_range(cmb_iter(cmb), sc)

\* variant: only the departing combination is priced
is_trip_elegible_departing_only(trip, tc) ==
    is_within_price_range(cmb_iter(trip.departing), trip_price_view(tc))

is_trip_elegible(trip, tc) == is_within_price_range(trip_iter(trip), trip_price_view(tc))

\* -------------------------------------------------------------- search.py
\* variant: flights are grouped by destination
build_flight_index_by_destination(fs) ==
    [d \in {fs[i].destination : i \in 1 .. Len(fs)} |->
        SelectSeq(fs, LAMBDA f : f.destination = d)]

\* dict: origin -> flights departing it, in input order
build_flight_index(fs) ==
    [o \in {fs[i].origin : i \in 1 .. Len(fs)} |->
        SelectSeq(fs, LAMBDA f : f.origin = o)]

\* index.get(airport, [])
index_get(idx, airport) == IF airport \in DOMAIN idx THEN idx[airport] ELSE << >>

\* variant: the visited airports are not looked at
branch_combination_revisiting(cmb, idx, sc) ==
    LET cands == SelectSeq(index_get(idx, destination(cmb)),
                           LAMBDA f : is_valid_layover(last(cmb), f, sc))
    IN  [i \in 1 .. Len(cands) |-> add(cmb, cands[i])]

branch_combination(cmb, idx, sc) ==
    LET cands == SelectSeq(index_get(idx, destination(cmb)),
                           LAMBDA f : /\ f.destination \notin cmb.visited_airports
                                      /\ is_valid_layover(last(cmb), f, sc))
    IN  [i \in 1 .. Len(cands) |-> add(cmb, cands[i])]

\* variant: every seed is stacked twice
seed_stack_repeated(idx, sc) ==
    LET seeds == SelectSeq(index_get(idx, sc.origin),
                           LAMBDA f : departs_on_requested_date(f, sc))
        once  == [i \in 1 .. Len(seeds) |-> FlightCombination(<<seeds[i]>>)]
    IN  once \o once

\* variant: each seed is constructed without its flight
seed_stack_flightless(idx, sc) ==
    LET seeds == SelectSeq(index_get(idx, sc.origin),
                           LAMBDA f : departs_on_requested_date(f, sc))
    IN  [i \in 1 .. Len(seeds) |-> FlightCombination(<< >>)]

\* the stack find_combinations starts from
seed_stack(idx, sc) ==
    LET seeds == SelectSeq(index_get(idx, sc.origin),
                           LAMBDA f : departs_on_requested_date(f, sc))
    IN  [i \in 1 .. Len(seeds) |-> FlightCombination(<<seeds[i]>>)]

\* variant: a return at the instant of the outbound arrival is accepted
returns_after_or_at(dep, ret) == first(ret).departure >= last(dep).arrival

\* _find_trips: the round-trip pairs kept
returns_after(dep, ret) == first(ret).departure > last(dep).arrival

\* variant: the outbound combination doubles as the returning leg
one_way_legs_doubled(dep) == <<dep, dep>>

\* _find_trips: the pair made of an outbound combination of a one-way trip
one_way_legs(dep) == <<dep, NullFlightCombination>>

\* what the else branch of the loop pushes for the popped combination
pushed(cur, idx, sc) ==
    SelectSeq(branch_combination(cur, idx, sc),
              LAMBDA cmb : is_combination_elegible(cmb, sc))

\* ------------------------------------------------------------------ inputs
RECURSIVE SetToSeq(_)
SetToSeq(S) ==
    IF S = {} THEN << >>
    ELSE LET x == CHOOSE y \in S : TRUE IN <<x>> \o SetToSeq(S \ {x})

\* the flight collections handed to search_trips: none, one, two or three
\* distinct flights
Catalogs ==
    {<< >>} \cup { SetToSeq({f, g, h}) : f \in ValidFlights, g \in ValidFlights,
                                         h \in ValidFlights }

\* a leg's constraints with no option set
Plain(o, d) ==
    [origin |-> o, destination |-> d, required_bags |-> 0,
     min_layover |-> 0, max_layover |-> 1,
     max_price |-> None, max_connections |-> None, departure_date |-> None]

Options == {"required_bags", "max_layover", "max_price", "max_connections"}

options_set(sc) ==
    Cardinality({ o \in Options : sc[o] # Plain(sc.origin, sc.destination)[o] })

SearchConstraints(o, d) ==
    { [origin |-> o, destination |-> d, required_bags |-> b,
       min_layover |-> 0, max_layover |-> lay,
       max_price |-> p, max_connections |-> c, departure_date |-> None] :
        b \in {0, 1}, lay \in {0, 1}, p \in {None, 2}, c \in {None, 0} }

\* build_constraints: the returning leg swaps origin and destination
mirror(sc) == [sc EXCEPT !.origin = sc.destination, !.destination = sc.origin]

\* the requests: a departing leg with up to two options set, one-way or with the
\* mirrored returning leg; and a plain departing leg with a returning leg that
\* sets one option of its own, or a bag count and a price limit of its own
TripConstraints ==
    LET departing == { sc \in SearchConstraints("AAA", "BBB") : options_set(sc) <= 2 }
    IN       { [departing |-> dep, returning |-> ret] :
                dep \in departing, ret \in {<< >>} }
        \cup { [departing |-> dep, returning |-> <<mirror(dep)>>] : dep \in departing }
        \cup { [departing |-> Plain("AAA", "BBB"), returning |-> <<ret>>] :
                ret \in { sc \in SearchConstraints("BBB", "AAA") : options_set(sc) = 1 } }
        \cup { [departing |-> Plain("AAA", "BBB"),
                returning |-> <<[Plain("BBB", "AAA") EXCEPT !.required_bags = 1,
                                                            !.max_price = 2]>>] }

\* ------------------------------------------------------------------- state
VARIABLES
    flights,            \* the flight collection passed to search_trips
    constraints,        \* the TripConstraints passed to search_trips
    pc,                 \* where the caller and the trip generator are
    output,             \* the trips main has sorted for printing
    index,              \* the FlightIndex built by search_trips
    search,             \* the find_combinations run in progress, or "none"
    stack,              \* its stack
    finished,           \* the find_combinations runs that ran to exhaustion
    dep_combinations,   \* combinations yielded by the departing search
    ret_combinations,   \* combinations yielded by the returning search
    cursor,             \* pairs of the product consumed so far
    trips               \* trips handed to the caller, in order

vars == <<flights, constraints, pc, output, index, search, stack, finished,
          dep_combinations, ret_combinations, cursor, trips>>

roundtrip == constraints.returning # << >>

\* the SearchConstraints of the run in progress
search_constraints ==
    IF search = "returning" THEN constraints.returning[1] ELSE constraints.departing

Init ==
    /\ flights \in Catalogs
    /\ constraints \in TripConstraints
    /\ pc = "start"
    /\ output = << >>
    /\ index = << >>
    /\ search = "none"
    /\ stack = << >>
    /\ finished = {}
    /\ dep_combinations = << >>
    /\ ret_combinations = << >>
    /\ cursor = 0
    /\ trips = << >>

\* search_trips: filter the flights, build the index, call _find_trips.  For a
\* round trip product() starts to exhaust the departing search at once; for a
\* one-way trip the generators are only created.
SearchTrips ==
    /\ pc = "start"
    /\ index' = build_flight_index(
                    SelectSeq(flights, LAMBDA f : is_flight_elegible(f, constraints)))
    /\ IF roundtrip
       THEN /\ pc' = "product"
            /\ search' = "departing"
            /\ stack' = seed_stack(index', constraints.departing)
       ELSE /\ pc' = "created"
            /\ search' = "none"
            /\ stack' = << >>
    /\ UNCHANGED <<output, flights, constraints, finished, dep_combinations,
                   ret_combinations, cursor, trips>>

\* the caller asks the trip generator for its next trip
Resume ==
    /\ pc \in {"created", "suspended"}
    /\ pc' = "running"
    /\ IF ~roundtrip /\ pc = "created"
       THEN /\ search' = "departing"
            /\ stack' = seed_stack(index, constraints.departing)
       ELSE UNCHANGED <<search, stack>>
    /\ UNCHANGED <<output, flights, constraints, index, finished, dep_combinations,
                   ret_combinations, cursor, trips>>

find_running == search # "none" /\ pc \in {"product", "running"}

cur == stack[Len(stack)]
popped == SubSeq(stack, 1, Len(stack) - 1)

\* loop iteration of find_combinations: the popped combination ends at the
\* destination and is yielded
FindYield ==
    /\ find_running
    /\ stack # << >>
    /\ destination(cur) = search_constraints.destination
    /\ stack' = popped
    /\ IF search = "departing"
       THEN /\ dep_combinations' = Append(dep_combinations, cur)
            /\ UNCHANGED ret_combinations
       ELSE /\ ret_combinations' = Append(ret_combinations, cur)
            /\ UNCHANGED dep_combinations
    /\ IF roundtrip
       THEN UNCHANGED <<pc, trips>>
       ELSE LET legs == one_way_legs(cur)
                trip == Trip(legs[1], legs[2], trip_required_bags(constraints))
            IN  IF is_trip_elegible(trip, constraints)
                THEN trips' = Append(trips, trip) /\ pc' = "suspended"
                ELSE UNCHANGED <<pc, trips>>
    /\ UNCHANGED <<output, flights, constraints, index, search, finished, cursor>>

\* loop iteration of find_combinations: the popped combination is branched
FindBranch ==
    /\ find_running
    /\ stack # << >>
    /\ destination(cur) # search_constraints.destination
    /\ stack' = popped \o pushed(cur, index, search_constraints)
    /\ UNCHANGED <<output, flights, constraints, pc, index, search, finished,
                   dep_combinations, ret_combinations, cursor, trips>>

\* the stack is empty: the find_combinations run is over
FindExhausted ==
    /\ find_running
    /\ stack = << >>
    /\ finished' = finished \cup {search}
    /\ IF ~roundtrip
       THEN pc' = "done" /\ search' = "none" /\ UNCHANGED stack
       ELSE IF search = "departing"
            THEN /\ search' = "returning"
                 /\ stack' = seed_stack(index, constraints.returning[1])
                 /\ UNCHANGED pc
            ELSE pc' = "created" /\ search' = "none" /\ UNCHANGED stack
    /\ UNCHANGED <<output, flights, constraints, index, dep_combinations,
                   ret_combinations, cursor, trips>>

\* variant: the return sequence is used up by the first outbound combination
product_size_single_pass ==
    IF dep_combinations = << >> THEN 0 ELSE Len(ret_combinations)

product_size == Len(dep_combinations) * Len(ret_combinations)
pair_dep == dep_combinations[(cursor \div Len(ret_combinations)) + 1]
pair_ret == ret_combinations[(cursor % Len(ret_combinations)) + 1]

\* round trip: the trip generator takes the next pair of the product
ProductStep ==
    /\ pc = "running"
    /\ roundtrip
    /\ cursor < product_size
    /\ cursor' = cursor + 1
    /\ LET trip == Trip(pair_dep, pair_ret, trip_required_bags(constraints))
       IN  IF /\ returns_after(pair_dep, pair_ret)
              /\ is_trip_elegible(trip, constraints)
           THEN trips' = Append(trips, trip) /\ pc' = "suspended"
           ELSE UNCHANGED <<pc, trips>>
    /\ UNCHANGED <<output, flights, constraints, index, search, stack, finished,
                   dep_combinations, ret_combinations>>

\* round trip: the product is used up
ProductExhausted ==
    /\ pc = "running"
    /\ roundtrip
    /\ cursor = product_size
    /\ pc' = "done"
    /\ UNCHANGED <<output, flights, constraints, index, search, stack, finished,
                   dep_combinations, ret_combinations, cursor, trips>>

\* what an instance of Trip answers to: its fields and its properties
TripAttributes ==
    {"departing", "returning", "required_bags", "origin", "destination", "travel_time"}

\* sorting_key_fn(trip) reads trip.departure
sorting_key_fn_raises(trip) == "departure" \notin TripAttributes

\* main: sorted(unsorted_trips, key=sorting_key_fn) has drained the search and
\* computes the key of every trip; with no trip there is no key to compute
Present ==
    /\ pc = "done"
    /\ IF \E i \in 1 .. Len(trips) : sorting_key_fn_raises(trips[i])
       THEN pc' = "AttributeError" /\ UNCHANGED output
       ELSE pc' = "printed" /\ output' = << >>
    /\ UNCHANGED <<flights, constraints, index, search, stack, finished,
                   dep_combinations, ret_combinations, cursor, trips>>

Next ==
    \/ SearchTrips
    \/ Resume
    \/ FindYield
    \/ FindBranch
    \/ FindExhausted
    \/ ProductStep
    \/ ProductExhausted
    \/ Present

Spec == Init /\ [][Next]_vars

\* the round-trip requests: each runs the departing search of the one-way
\* request with the same departing constraints, and a returning search
RoundTripInit == Init /\ roundtrip

RoundTripSpec == RoundTripInit /\ [][Next]_vars

\* ------------------------------------------------------------ vocabulary
Range(seq) == { seq[i] : i \in 1 .. Len(seq) }

indexed_flights == UNION { Range(index[o]) : o \in DOMAIN index }

departing_sc == constraints.departing
returning_sc == constraints.returning[1]

\* every combination find_combinations has yielded, with the constraints of its run
yielded ==
    { <<c, departing_sc>> : c \in Range(dep_combinations) }
        \cup { <<c, returning_sc>> : c \in Range(ret_combinations) }

\* yielded, or on the stack of the run in progress
held == yielded \cup { <<c, search_constraints>> : c \in Range(stack) }

\* airports a flight sequence touches, read off the flights
RECURSIVE airports_touched(_)
airports_touched(fs) ==
    IF fs = << >> THEN {}
    ELSE {Head(fs).origin, Head(fs).destination} \cup airports_touched(Tail(fs))

RECURSIVE sum_base(_)
sum_base(fs) == IF fs = << >> THEN 0 ELSE Head(fs).base_price + sum_base(Tail(fs))

RECURSIVE sum_bag(_)
sum_bag(fs) == IF fs = << >> THEN 0 ELSE Head(fs).bag_price + sum_bag(Tail(fs))

\* price of a flight sequence for a bag count, straight from the definition
price_of(fs, bags) == sum_base(fs) + bags * sum_bag(fs)

adjacent(fs) == { i \in 1 .. Len(fs) : i < Len(fs) }

\* the flight sequences a search under sc is to find
valid_path(p, sc) ==
    /\ p[1].origin = sc.origin
    /\ sc.departure_date # None => date(p[1].departure) = sc.departure_date
    /\ p[Len(p)].destination = sc.destination
    /\ \A i \in adjacent(p) :
        /\ p[i].destination = p[i + 1].origin
        /\ sc.min_layover <= p[i + 1].departure - p[i].arrival
        /\ p[i + 1].departure - p[i].arrival <= sc.max_layover
    /\ Cardinality(airports_touched(p)) = Len(p) + 1
    /\ sc.max_connections # None => Len(p) - 1 <= sc.max_connections
    /\ sc.max_price # None => price_of(p, sc.required_bags) <= sc.max_price

\* connected sequences of k indexed flights that start at the origin of sc
RECURSIVE routes(_, _)
routes(k, sc) ==
    IF k = 1 THEN { <<f>> : f \in { g \in indexed_flights : g.origin = sc.origin } }
    ELSE UNION { { Append(p, f) :
                    f \in { g \in indexed_flights : g.origin = p[k - 1].destination } } :
                 p \in routes(k - 1, sc) }

\* a path that touches no airport twice has fewer legs than there are airports
valid_paths(sc) ==
    UNION { { p \in routes(k, sc) : valid_path(p, sc) } :
            k \in 1 .. (Cardinality(Airports) - 1) }

C2_Connected ==
    \A h \in held :
        /\ h[1].flights[1].origin = h[2].origin
        /\ \A i \in adjacent(h[1].flights) :
            h[1].flights[i].destination = h[1].flights[i + 1].origin

C2_Witness == \E h \in yielded : Len(h[1].flights) = 2

\* C3: a yielded combination of k legs touches k+1 airports; its origin is only
\* the first airport and the destination of the search only the last one.
C3_NoRevisit ==
    \A h \in yielded :
        LET fs == h[1].flights IN
        /\ Cardinality(airports_touched(fs)) = Len(fs) + 1
        /\ \A i \in 1 .. Len(fs) : fs[i].destination # h[2].origin
        /\ \A i \in adjacent(fs) : fs[i].destination # h[2].destination

\* a two-leg combination was yielded although a flight back to the origin
\* connected to its first leg
C3_Witness ==
    \E c \in Range(dep_combinations) :
        /\ Len(c.flights) = 2
        /\ \E f \in indexed_flights :
            /\ f.origin = c.flights[1].destination
            /\ f.destination = departing_sc.origin
            /\ is_valid_layover(c.flights[1], f, departing_sc)

\* C4: every layover of a yielded combination lies in [min_layover, max_layover].
C4_Layover ==
    \A h \in yielded :
        \A i \in adjacent(h[1].flights) :
            LET layover == h[1].flights[i + 1].departure - h[1].flights[i].arrival
            IN  h[2].min_layover <= layover /\ layover <= h[2].max_layover

\* combinations with a layover of exactly min_layover and of exactly max_layover
\* were yielded by one search
C4_Witness ==
    /\ departing_sc.min_layover < departing_sc.max_layover
    /\ \E c \in Range(dep_combinations) :
        Len(c.flights) = 2
        /\ layover_between(c.flights[1], c.flights[2]) = departing_sc.min_layover
    /\ \E c \in Range(dep_combinations) :
        Len(c.flights) = 2
        /\ layover_between(c.flights[1], c.flights[2]) = departing_sc.max_layover

\* C5: in every trip with a returning combination the return departs strictly
\* after the outbound arrives.
C5_ReturnAfterArrival ==
    \A i \in 1 .. Len(trips) :
        cmb_bool(trips[i].returning) =>
            first(trips[i].returning).departure > last(trips[i].departing).arrival

\* a round trip was handed out while a return leaving at the instant of the
\* outbound arrival was among the pairs
C5_Witness ==
    /\ \E i \in 1 .. Len(trips) : cmb_bool(trips[i].returning)
    /\ \E d \in Range(dep_combinations), r \in Range(ret_combinations) :
        first(r).departure = last(d).arrival

\* a flight search_trips is to leave out: too small a bag allowance, or a price
\* for the required bags above the maximum price
ineligible(f) ==
    \/ f.bags_allowed < departing_sc.required_bags
    \/ /\ departing_sc.max_price # None
       /\ f.base_price + departing_sc.required_bags * f.bag_price > departing_sc.max_price

\* the flights of a trip, read off its two legs
trip_flights(trip) ==
    trip.departing.flights
        \o (IF trip.returning.kind = "combination" THEN trip.returning.flights ELSE << >>)

\* C6: no indexed flight and no flight of a trip handed out has a bag allowance
\* below the required bags or a price for the required bags above the maximum
\* price.
C6_EligibleFlightsOnly ==
    /\ \A f \in indexed_flights : ~ineligible(f)
    /\ \A i \in 1 .. Len(trips) :
        \A f \in Range(trip_flights(trips[i])) : ~ineligible(f)

\* the search is over without a trip although the collection has a direct flight
\* and a connection to the destination, each through a flight allowing too few
\* bags, while another flight stayed in the index
C6_Witness ==
    /\ pc = "done"
    /\ trips = << >>
    /\ indexed_flights # {}
    /\ \E f \in Range(flights) :
        /\ f.origin = departing_sc.origin
        /\ f.destination = departing_sc.destination
        /\ f.bags_allowed < departing_sc.required_bags
    /\ \E f \in Range(flights), g \in Range(flights) :
        /\ f.origin = departing_sc.origin
        /\ f.destination = g.origin
        /\ g.destination = departing_sc.destination
        /\ layover_between(f, g) = 0
        /\ f \in indexed_flights
        /\ g.bags_allowed < departing_sc.required_bags

\* C7: a yielded combination has at most max_connections connections when that
\* is set; with max_connections = 0 a search over an index without a direct
\* flight yields nothing.
C7_MaxConnections ==
    /\ \A h \in yielded :
        h[2].max_connections # None => Len(h[1].flights) - 1 <= h[2].max_connections
    /\ ( /\ "departing" \in finished
         /\ departing_sc.max_connections = 0
         /\ ~\E f \in indexed_flights :
                f.origin = departing_sc.origin /\ f.destination = departing_sc.destination )
       => dep_combinations = << >>

\* max_connections = 0: the search is over and yielded nothing although a
\* connection through one stop with a valid layover reaches the destination
C7_Witness ==
    /\ "departing" \in finished
    /\ departing_sc.max_connections = 0
    /\ dep_combinations = << >>
    /\ \E f \in indexed_flights, g \in indexed_flights :
        /\ f.origin = departing_sc.origin
        /\ f.destination = g.origin
        /\ g.destination = departing_sc.destination
        /\ is_valid_layover(f, g, departing_sc)

\* C8: every yielded combination costs, for the required bags of its search, at
\* most the max_price of its search when that is set.
C8_WithinMaxPrice ==
    \A h \in yielded :
        h[2].max_price # None =>
            price_of(h[1].flights, h[2].required_bags) <= h[2].max_price

\* pairs of the product that pass the date order test
pairs_kept ==
    { <<i, j>> \in (1 .. Len(dep_combinations)) \X (1 .. Len(ret_combinations)) :
        first(ret_combinations[j]).departure > last(dep_combinations[i]).arrival }

\* C9: with a maximum price set every trip handed out costs at most that price
\* for the required bags, all legs of both combinations counted; with none set,
\* a finished search has handed out a trip for every pair (round trip) or every
\* outbound combination (one-way).
C9_TripMaxPrice ==
    /\ departing_sc.max_price # None =>
        \A i \in 1 .. Len(trips) :
            price_of(trip_flights(trips[i]), departing_sc.required_bags)
                <= departing_sc.max_price
    /\ (departing_sc.max_price = None /\ pc = "done") =>
        Len(trips) = IF roundtrip THEN Cardinality(pairs_kept) ELSE Len(dep_combinations)

\* round trip with a maximum price: one pair became a trip and the search is over
C9_Witness ==
    /\ pc = "done"
    /\ roundtrip
    /\ departing_sc.max_price # None
    /\ Len(trips) = 1
    /\ cursor >= 1

\* outbound combinations whose price passes the trip price filter
RECURSIVE affordable(_)
affordable(cmbs) ==
    IF cmbs = << >> THEN << >>
    ELSE LET rest == affordable(Tail(cmbs))
         IN  IF \/ departing_sc.max_price = None
                \/ price_of(Head(cmbs).flights, departing_sc.required_bags)
                    <= departing_sc.max_price
             THEN <<Head(cmbs)>> \o rest
             ELSE rest

\* C10: one-way: every trip has an absent returning leg with travel time zero
\* and no flights; the trip iterates over the flights of its departing
\* combination, has its travel time and its destination; and the trips are, in
\* order, one for each outbound combination that passes the price filter.
C10_OneWay ==
    ~roundtrip =>
        /\ Len(trips) = Len(affordable(dep_combinations))
        /\ \A i \in 1 .. Len(trips) :
            LET t == trips[i] IN
            /\ t.departing = affordable(dep_combinations)[i]
            /\ ~cmb_bool(t.returning)
            /\ cmb_travel_time(t.returning) = 0
            /\ cmb_iter(t.returning) = << >>
            /\ trip_iter(t) = t.departing.flights
            /\ trip_travel_time(t) =
                t.departing.flights[Len(t.departing.flights)].arrival
                    - t.departing.flights[1].departure
            /\ trip_destination(t) =
                t.departing.flights[Len(t.departing.flights)].destination

\* a one-way search handed out two trips, one of them with a connection
C10_Witness ==
    /\ ~roundtrip
    /\ Len(trips) = 2
    /\ \E i \in 1 .. Len(trips) : Len(trips[i].departing.flights) = 2

\* ------------------------------------------------------------ termination
\* requests that leave every flight in the index and prune no combination by
\* bags, price or connections: the longest searches
unpruned_requests ==
    { tc \in TripConstraints :
        /\ tc.departing.required_bags = 0
        /\ tc.departing.max_price = None
        /\ tc.departing.max_connections = None
        /\ tc.returning \in {<< >>, <<mirror(tc.departing)>>} }

UnprunedInit == Init /\ constraints \in unpruned_requests

\* the unpruned searches, for what does not depend on the pruning options
UnprunedSpec == UnprunedInit /\ [][Next]_vars

\* the caller consumes the whole trip sequence (main sorts it) and every
\* generator that can take a step takes it
FairSpec == UnprunedSpec /\ WF_vars(Next)

\* airports that occur in the index
index_airports == UNION { {f.origin, f.destination} : f \in indexed_flights }

\* no stacked combination has more legs than the index has airports, less one
stack_bounded ==
    \A c \in Range(stack) : Len(c.flights) <= Cardinality(index_airports) - 1

\* C11: find_combinations terminates: a run that has started reaches the end of
\* its loop with an empty stack, and no combination on the stack ever has more
\* legs than the number of distinct airports of the index minus one.
C11_Terminates ==
    /\ [] stack_bounded
    /\ (search = "departing") ~> ("departing" \in finished /\ stack = << >>)
    /\ (search = "returning") ~> ("returning" \in finished /\ stack = << >>)

\* a stacked combination as long as the bound allows, in an index of three airports
C11_Witness ==
    /\ Cardinality(index_airports) = 3
    /\ \E c \in Range(stack) : Len(c.flights) = 2

\* ---------------------------------------------------------------- laziness
\* C12: the trip sequence is lazy for one-way and round-trip requests alike:
\* when search_trips has returned and no trip has been asked for yet, no
\* combination has been popped or yielded and no search has run to its end, and
\* whenever a trip has just been handed to the caller the departing search has
\* not been run to its end on behalf of trips nobody asked for.
C12_Lazy ==
    /\ pc = "created" =>
          /\ finished = {}
          /\ dep_combinations = << >>
          /\ ret_combinations = << >>
    /\ pc = "suspended" => "departing" \notin finished

\* ------------------------------------------------------------- extension
\* the popped combination is one the loop branches
branching == find_running /\ stack # << >> /\ destination(cur) # search_constraints.destination

\* c is parent followed by one flight of the index, with the visited airports of
\* exactly its own legs
extends(c, parent) ==
    /\ c.kind = "combination"
    /\ Len(c.flights) = Len(parent.flights) + 1
    /\ SubSeq(c.flights, 1, Len(parent.flights)) = parent.flights
    /\ last(c) \in indexed_flights
    /\ c.visited_airports = airports_touched(c.flights)

\* C13: combination + flight is a new combination: the legs of the original in
\* order followed by the new flight, visited airports exactly the origins and
\* destinations of its legs.  The original is not changed: every combination
\* pushed by one iteration extends the popped combination as it was when popped
\* (no sibling sees another sibling's flight), and the combinations below it
\* on the stack stay as they were.
C13_Extension ==
    [][ branching =>
          /\ Len(stack') >= Len(stack) - 1
          /\ SubSeq(stack', 1, Len(stack) - 1) = popped
          /\ \A i \in Len(stack) .. Len(stack') : extends(stack'[i], cur)
          /\ \A f \in indexed_flights :
                /\ add(cur, f).flights = cur.flights \o <<f>>
                /\ add(cur, f).visited_airports = airports_touched(cur.flights \o <<f>>)
      ]_vars

\* two siblings built from the same parent sit on the stack
C13_Witness ==
    \E i, j \in 1 .. Len(stack) :
        /\ i < j
        /\ Len(stack[i].flights) = 2
        /\ Len(stack[j].flights) = 2
        /\ stack[i].flights[1] = stack[j].flights[1]
        /\ stack[i].flights[2] # stack[j].flights[2]

\* ------------------------------------------------------ empty combination
\* every combination the search has constructed and still holds or has handed on
constructed ==
    Range(stack) \cup Range(dep_combinations) \cup Range(ret_combinations)
        \cup { t.departing : t \in Range(trips) }
        \cup { t.returning : t \in { u \in Range(trips) : roundtrip } }

\* C14: a FlightCombination of zero flights is a ValueError, and no step of
\* find_combinations or search_trips constructs one: every combination on the
\* stack, yielded or wrapped in a trip has at least one leg.
C14_NeverEmpty ==
    /\ FlightCombination(<< >>).kind = "ValueError"
    /\ \A c \in constructed : c.kind = "combination" /\ Len(c.flights) >= 1

\* a trip has been handed over and the search has constructed combinations of
\* one and of two legs
C14_Witness ==
    /\ trips # << >>
    /\ \E c \in constructed : Len(c.flights) = 1
    /\ \E c \in constructed : Len(c.flights) = 2

\* ------------------------------------------------------------------ no route
\* C15: when no chain of indexed flights leads from the origin to the
\* destination of a search within its constraints (the origin has no flights,
\* is unknown to the index, or the constraints exclude every path), the
\* find_combinations run ends having yielded nothing, and search_trips ends
\* with no trip when either of its searches has no such chain.
C15_EmptyWhenNoRoute ==
    /\ ("departing" \in finished /\ valid_paths(departing_sc) = {})
            => dep_combinations = << >>
    /\ ("returning" \in finished /\ valid_paths(returning_sc) = {})
            => ret_combinations = << >>
    /\ (pc = "done" /\ (\/ valid_paths(departing_sc) = {}
                        \/ roundtrip /\ valid_paths(returning_sc) = {}))
            => trips = << >>

\* ---------------------------------------------------------------- pricing
\* bag counts the prices are compared for
MaxBags == 2

\* C16: total_price(item, n) is the sum of base_price over the legs plus n times
\* the sum of bag_price over the legs, for every combination the search holds
\* and every trip handed out; the legs of a trip are those of its departing
\* combination followed by those of its returning one, and the absent return
\* of a one-way trip adds nothing.
C16_TotalPrice ==
    \A n \in 0 .. MaxBags :
        /\ \A c \in constructed :
                total_price(cmb_iter(c), n) = price_of(c.flights, n)
        /\ \A t \in Range(trips) :
                /\ trip_iter(t) = trip_flights(t)
                /\ total_price(trip_iter(t), n)
                      = price_of(t.departing.flights, n)
                          + (IF roundtrip THEN price_of(t.returning.flights, n) ELSE 0)
        /\ total_price(cmb_iter(NullFlightCombination), n) = 0

\* a round trip has been handed out whose outbound and return flights both
\* charge for bags
C16_Witness ==
    \E t \in Range(trips) :
        /\ t.returning.kind = "combination"
        /\ sum_bag(t.departing.flights) > 0
        /\ sum_bag(t.returning.flights) > 0

\* ------------------------------------------------------------ presentation
\* the departure time of a trip: that of its first outbound flight
trip_departure(trip) == first(trip.departing).departure

sort_key(trip) == <<price_of(trip_flights(trip), trip.required_bags), trip_departure(trip)>>

key_leq(a, b) == a[1] < b[1] \/ (a[1] = b[1] /\ a[2] <= b[2])

\* C17: the presentation step of main completes for every result sequence,
\* empty or not, and what it prints is all the trips of the search ordered by
\* non-decreasing total price for the required bags, ties by departure time.
C17_Presented ==
    /\ pc # "AttributeError"
    /\ pc = "printed" =>
          /\ Len(output) = Len(trips)
          /\ \A t \in Range(trips) :
                Cardinality({ i \in 1 .. Len(trips) : trips[i] = t })
                    = Cardinality({ i \in 1 .. Len(output) : output[i] = t })
          /\ \A i, j \in 1 .. Len(output) :
                i < j => key_leq(sort_key(output[i]), sort_key(output[j]))

\* ------------------------------------------------------------------ product
\* the trip generator has gone through all its pairs
drained == pc \in {"done", "printed", "AttributeError"}

\* pairs in date order whose trip passes the trip price filter
pairs_affordable ==
    { pr \in pairs_kept :
        departing_sc.max_price # None =>
            price_of(dep_combinations[pr[1]].flights \o ret_combinations[pr[2]].flights,
                     departing_sc.required_bags) <= departing_sc.max_price }

\* C18: round trip: the pairs wrapped into trips are the full Cartesian product
\* of all outbound and all return combinations restricted to the pairs whose
\* return departs after the outbound arrives; the whole return sequence is gone
\* through for every outbound combination, the second and later ones included.
\* Once the generator is drained every pair of the product was taken, and the
\* trips handed out are, in product order, those of the pairs in date order
\* that pass the trip price filter.
C18_FullProduct ==
    (roundtrip /\ drained) =>
        /\ {"departing", "returning"} \subseteq finished
        /\ cursor = Len(dep_combinations) * Len(ret_combinations)
        /\ Len(trips) = Cardinality(pairs_affordable)
        /\ \A pr \in pairs_affordable :
              \E k \in 1 .. Len(trips) :
                  /\ trips[k].departing = dep_combinations[pr[1]]
                  /\ trips[k].returning = ret_combinations[pr[2]]
        /\ \A k \in 1 .. Len(trips) :
              \E pr \in pairs_affordable :
                  /\ trips[k].departing = dep_combinations[pr[1]]
                  /\ trips[k].returning = ret_combinations[pr[2]]

\* the second outbound combination was paired with a return combination
C18_Witness ==
    /\ roundtrip
    /\ drained
    /\ Len(dep_combinations) >= 2
    /\ \E k \in 1 .. Len(trips) : trips[k].departing = dep_combinations[2]

\* ------------------------------------------------------------- exactly once
\* no two places of a sequence of combinations hold the same legs
once_each(cmbs) ==
    \A i, j \in 1 .. Len(cmbs) : i # j => cmbs[i].flights # cmbs[j].flights

\* g flies the same route as f and is another flight
parallel(f, g) == g # f /\ g.origin = f.origin /\ g.destination = f.destination

\* with any leg of a yielded combination swapped for a parallel indexed flight,
\* the legs were yielded too if they are a valid path
parallel_yielded(cmbs, sc) ==
    \A c \in Range(cmbs) : \A k \in 1 .. Len(c.flights) :
        \A g \in indexed_flights :
            LET p == [c.flights EXCEPT ![k] = g]
            IN  (parallel(c.flights[k], g) /\ valid_path(p, sc))
                    => \E d \in Range(cmbs) : d.flights = p

\* C19: the flights of the index being pairwise distinct, find_combinations
\* yields no leg sequence twice, and parallel flights on one origin-destination
\* pair are distinct edges: when a run is over, two combinations that differ only
\* in the parallel flight used on some leg have both been yielded if both
\* satisfy the constraints.
C19_ExactlyOnce ==
    /\ once_each(dep_combinations)
    /\ once_each(ret_combinations)
    /\ "departing" \in finished => parallel_yielded(dep_combinations, departing_sc)
    /\ "returning" \in finished => parallel_yielded(ret_combinations, returning_sc)

\* a finished search yielded two combinations of two legs that differ only in
\* the parallel flight of one leg
C19_Witness ==
    /\ "departing" \in finished
    /\ \E c, d \in Range(dep_combinations) :
          /\ Len(c.flights) = 2
          /\ Len(d.flights) = 2
          /\ c.flights[1] = d.flights[1]
          /\ parallel(c.flights[2], d.flights[2])

\* ------------------------------------------------------------- shared bags
\* the returning constraints with the bag count of the trip in place of their own
returning_shared == [returning_sc EXCEPT !.required_bags = trip_required_bags(constraints)]

\* C20: round trip: the required bag count is the one of the departing
\* constraints, for every check on return flights, return combinations and
\* trips, so that returning.required_bags has no influence on the trips: what
\* the returning search stacks for a popped combination is what it stacks with
\* the bag count of the departing constraints in place of its own.
C20_SharedBags ==
    (roundtrip /\ search = "returning" /\ branching) =>
        pushed(cur, index, returning_sc) = pushed(cur, index, returning_shared)

\* ------------------------------------------------------------ departure date
\* the calendar days of the timetable, and no day asked for
Dates == { date(t) : t \in Times } \cup {None}

\* requests that differ in the dates asked for only: one-way, and round trip
\* with a return date of its own (build_constraints)
dated_requests ==
    { [departing |-> [Plain("AAA", "BBB") EXCEPT !.departure_date = d],
       returning |-> << >>] : d \in Dates }
        \cup { [departing |-> [Plain("AAA", "BBB") EXCEPT !.departure_date = d],
                returning |-> <<[Plain("BBB", "AAA") EXCEPT !.departure_date = r]>>] :
                d \in Dates, r \in Dates }

DatedInit ==
    /\ flights \in Catalogs
    /\ constraints \in dated_requests
    /\ pc = "start"
    /\ output = << >>
    /\ index = << >>
    /\ search = "none"
    /\ stack = << >>
    /\ finished = {}
    /\ dep_combinations = << >>
    /\ ret_combinations = << >>
    /\ cursor = 0
    /\ trips = << >>

DatedSpec == DatedInit /\ [][Next]_vars

\* f leaves the origin of sc on the day sc asks for, if it asks for one
seeds_of(f, sc) ==
    /\ f.origin = sc.origin
    /\ sc.departure_date # None => date(f.departure) = sc.departure_date

\* every combination held has its first leg on the requested day
first_leg_dated ==
    \A h \in held :
        h[2].departure_date # None =>
            date(first(h[1]).departure) = h[2].departure_date

\* a run that is over yielded every valid path, whatever the days of its later legs
later_legs_free ==
    /\ "departing" \in finished =>
          \A p \in valid_paths(departing_sc) :
              \E c \in Range(dep_combinations) : c.flights = p
    /\ "returning" \in finished =>
          \A p \in valid_paths(returning_sc) :
              \E c \in Range(ret_combinations) : c.flights = p

\* a find_combinations run starts in this step
run_starts == search' # search /\ search' # "none"

\* C21: with departure_date set, the first leg of every combination of the run
\* departs on that calendar day: the stack a run starts from holds one
\* single-leg combination for each indexed flight that leaves the origin on that
\* day and nothing else; later legs are not held to that day.  With no
\* departure_date, every indexed flight leaving the origin seeds the run.
C21_DepartureDate ==
    /\ [] first_leg_dated
    /\ [] later_legs_free
    /\ [][ run_starts =>
            /\ \A f \in indexed_flights' :
                  seeds_of(f, search_constraints')
                      <=> \E i \in 1 .. Len(stack') : stack'[i].flights = <<f>>
            /\ \A i \in 1 .. Len(stack') :
                  /\ Len(stack'[i].flights) = 1
                  /\ stack'[i].flights[1] \in indexed_flights'
                  /\ \A j \in 1 .. Len(stack') : stack'[j] = stack'[i] => j = i
       ]_vars

\* a run with a departure date yielded a combination whose second leg departs
\* on another day, while a flight of another day leaving the origin was left out
C21_Witness ==
    /\ departing_sc.departure_date # None
    /\ \E c \in Range(dep_combinations) :
          /\ Len(c.flights) = 2
          /\ date(c.flights[2].departure) # departing_sc.departure_date
    /\ \E f \in indexed_flights :
          /\ f.origin = departing_sc.origin
          /\ date(f.departure) # departing_sc.departure_date

====
